---- MODULE Spec2Model ----
(***************************************************************************)
(* skeleton.py: setup_pipeline builds the pipeline description statement   *)
(* by statement; upload_pipeline opens a device session with it, opens     *)
(* five output queues and polls them in a display loop.                    *)
(*                                                                         *)
(* The device and the display are collaborators: the device side is a      *)
(* producer that pushes messages into the five bounded queues, the         *)
(* display calls (displayFrame, cv2.putText, cv2.waitKey) and the          *)
(* diagnostic dump are recorded in a per-iteration call log.  Every        *)
(* collaborator call may raise; an uncaught error leaves the `with` block. *)
(***************************************************************************)
EXTENDS Integers, Sequences, FiniteSets, TLC

(* ------------------------------ bounds --------------------------------- *)
\* maxSize of every output queue (config.COLOR_CAMERA_QUEUE_SIZE, a value
\* of the configuration module)
QueueSize == 1
\* distinct images the color stream carries
MaxFrames == 2
\* distinct images a mono stream carries
MaxMono == 1
\* inferences of a session: messages the device delivers on 'nn' and on
\* 'nnNet'
MaxDetMsgs == 2
\* largest number of detection records in one 'nn' message
MaxDets == 2
\* largest reading of the monotonic clock
MaxTime == 2

(* ------------------------------ constants ------------------------------ *)
\* ord('q'), the key that ends the loop
QuitKey == 113
\* cv2.waitKey returns -1 when no key was pressed within the delay
NoKey == -1
\* some other key
OtherKey == 97

StreamNames == {"Left", "Right", "RGB", "nn", "nnNet"}
\* the order of the five tryGet calls
ReadOrder == <<"Left", "Right", "RGB", "nn", "nnNet">>
Keys == {NoKey, OtherKey, QuitKey}

(* ------------------------------ values --------------------------------- *)
\* tryGet returns None when the queue is empty
NoMsg == [seq |-> 0, ndet |-> 0]
\* clrFrame = None
NoFrame == [id |-> 0, text |-> <<>>]
\* messages a stream carries: a sequence number, and for 'nn' the number of
\* detection records
Msgs(n) ==
  IF n = "RGB" THEN [seq : 1..MaxFrames, ndet : {0}]
  ELSE IF n \in {"Left", "Right"} THEN [seq : 1..MaxMono, ndet : {0}]
  ELSE IF n = "nn" THEN [seq : {1}, ndet : 0..MaxDets]
  ELSE [seq : {1}, ndet : {0}]

\* the collaborator call of an iteration that raises, if any
NoFail == [op |-> "none", name |-> ""]
FailSites ==
  {NoFail}
    \cup [op : {"tryGet"}, name : StreamNames]
    \cup [op : {"displayFrame"}, name : {"Left", "Right", "RGB Detection"}]
    \cup [op : {"putText", "print_neural_network_layer_names"}, name : {""}]
OpenFailSites ==
  {NoFail}
    \cup [op : {"Device", "getDeviceInfo"}, name : {""}]
    \cup [op : {"getOutputQueue"}, name : StreamNames]

(* ------------------------------ the pipeline builder ------------------- *)
\* a statement of setup_pipeline: line, operation and operands
St(line, op, a, b, c) == [line |-> line, op |-> op, a |-> a, b |-> b, c |-> c]
\* the statements of setup_pipeline up to its return, in order:
\*   create  a: variable      b: node type
\*   set     a: variable      b: method        c: argument
\*   link    a: source node   b: output port   c: node of the linked input
Creates ==
  << St(19, "Pipeline", "pipeline", "", ""),
     St(22, "set", "pipeline", "setOpenVINOVersion", "VERSION_2022_1"),
     St(26, "create", "monoCamLeftNode", "MonoCamera", ""),
     St(27, "create", "monoCamRightNode", "MonoCamera", ""),
     St(29, "create", "rgbCamNode", "ColorCamera", ""),
     St(31, "create", "nn", "MobileNetDetectionNetwork", ""),
     St(34, "create", "xOutLeft", "XLinkOut", ""),
     St(35, "create", "xOutRight", "XLinkOut", ""),
     St(36, "create", "xOutRGB", "XLinkOut", ""),
     St(39, "create", "nnOut", "XLinkOut", ""),
     St(40, "create", "nnNetworkOut", "XLinkOut", "") >>
Settings ==
  << St(43, "set", "xOutLeft", "setStreamName", "Left"),
     St(44, "set", "xOutRight", "setStreamName", "Right"),
     St(45, "set", "xOutRGB", "setStreamName", "RGB"),
     St(46, "set", "nnOut", "setStreamName", "nn"),
     St(47, "set", "nnNetworkOut", "setStreamName", "nnNet"),
     St(51, "set", "monoCamRightNode", "setBoardSocket", "RIGHT"),
     St(52, "set", "monoCamLeftNode", "setBoardSocket", "LEFT"),
     St(62, "set", "monoCamLeftNode", "setResolution", "THE_480_P"),
     St(63, "set", "monoCamRightNode", "setResolution", "THE_480_P"),
     St(66, "set", "rgbCamNode", "setPreviewSize", "config.COLOR_CAMERA_PREVIEW_SIZE"),
     St(67, "set", "rgbCamNode", "setInterleaved", "config.CAMERA_INTERLEAVED"),
     St(68, "set", "rgbCamNode", "setColorOrder", "RGB"),
     St(73, "set", "nn", "setConfidenceThreshold", "config.NN_THRESHOLD"),
     St(74, "set", "nn", "setNumInferenceThreads", "config.INFERENCE_THREADS"),
     St(76, "set", "nn", "setBlobPath", "config.MOBILENET_DETECTION_MODEL_PATH"),
     St(77, "set", "nn", "input.setBlocking", "False") >>
\* a faulty variant: the two mono cameras are linked to each other's output
LinksCrossed ==
  << St(80, "link", "monoCamLeftNode", "out", "xOutRight"),
     St(81, "link", "monoCamRightNode", "out", "xOutLeft"),
     St(83, "link", "rgbCamNode", "preview", "xOutRGB"),
     St(85, "link", "rgbCamNode", "preview", "nn"),
     St(88, "link", "nn", "out", "nnOut"),
     St(91, "link", "nn", "outNetwork", "nnNetworkOut") >>
Links ==
  << St(80, "link", "monoCamLeftNode", "out", "xOutLeft"),
     St(81, "link", "monoCamRightNode", "out", "xOutRight"),
     St(83, "link", "rgbCamNode", "preview", "xOutRGB"),
     St(85, "link", "rgbCamNode", "preview", "nn"),
     St(88, "link", "nn", "out", "nnOut"),
     St(91, "link", "nn", "outNetwork", "nnNetworkOut") >>
BuilderProgram == Creates \o Settings \o Links

\* no pipeline object yet
NoPipeline == [made |-> FALSE, nodes |-> {}, props |-> {}, links |-> {}]
\* the effect of one builder statement on the description
Apply(p, st) ==
  CASE st.op = "Pipeline" -> [made |-> TRUE, nodes |-> {}, props |-> {}, links |-> {}]
    [] st.op = "create" -> [p EXCEPT !.nodes = @ \cup {[var |-> st.a, type |-> st.b]}]
    [] st.op = "set" ->
         [p EXCEPT !.props = {x \in @ : ~(x.node = st.a /\ x.prop = st.b)}
                               \cup {[node |-> st.a, prop |-> st.b, val |-> st.c]}]
    [] st.op = "link" ->
         [p EXCEPT !.links = @ \cup {[src |-> st.a, port |-> st.b, dst |-> st.c]}]

\* the stream-output nodes of a description and the names given to them
XLinkOuts(p) == {n.var : n \in {m \in p.nodes : m.type = "XLinkOut"}}
NamesOf(p, x) == {q.val : q \in {r \in p.props : r.node = x /\ r.prop = "setStreamName"}}
Incoming(p, x) == {l \in p.links : l.dst = x}
\* the streams the device sends to the host: the named stream-output nodes
\* that something is linked to
Streams(p) == UNION {NamesOf(p, x) : x \in {y \in XLinkOuts(p) : Incoming(p, y) # {}}}

VARIABLES
  pc,                      \* "build", "start", "loop", "poll", "exited", "aborted"
  pipeline,                \* the description setup_pipeline is building / has built
  built,                   \* statements of setup_pipeline executed so far
  uploaded,                \* the description dai.Device was given
  opened,                  \* names of the output queues opened, in order
  session,                 \* the dai.Device context: "none", "held", "released"
  error,                   \* the uncaught error that ended the session block
  QUEUE_BLOCKING,          \* config.QUEUE_BLOCKING
  PRINT_NEURAL_NETWORK_METADATA, \* config.PRINT_NEURAL_NETWORK_METADATA
  queue,                   \* stream name -> number of messages waiting on the host
  lastKey,                 \* last value cv2.waitKey returned
  now,                     \* last reading of time.monotonic()
  clrFrame, detections, startTime, counter, printOutputLayersOnce,
  log,                     \* collaborator calls and assignments of this iteration
  retrievedDet,            \* 'nn' messages retrieved so far (history)
  lastRGB,                 \* last 'RGB' message retrieved (history)
  lastDet,                 \* last 'nn' message retrieved (history)
  retrievedNN,             \* 'nnNet' messages retrieved so far (history)
  dumps                    \* calls of the layer-name dump so far (history)

hostVars == <<clrFrame, detections, startTime, counter, printOutputLayersOnce>>
histVars == <<retrievedDet, lastRGB, lastDet, retrievedNN, dumps>>
cfgVars == <<QUEUE_BLOCKING, PRINT_NEURAL_NETWORK_METADATA>>
buildVars == <<pipeline, built>>
devVars == <<uploaded, opened>>
vars == <<pc, buildVars, devVars, session, error, cfgVars, queue, lastKey, now, hostVars, log, histVars>>

(* ------------------------------ collaborators -------------------------- *)
\* DataOutputQueue.tryGet on a queue of q waiting messages whose oldest is m:
\* that message, or None; never waits
TryGet(q, m) == IF q = 0 THEN NoMsg ELSE m
AfterTryGet(q) == IF q = 0 THEN 0 ELSE q - 1
\* a plausible slip: get() in place of tryGet() waits for a message
GetReturns(q) == q # 0
\* tryGet returns at once whether or not a message is there
TryGetReturns(q) == TRUE

\* ImgFrame.getCvFrame: a fresh image of the message
GetCvFrame(m) == [id |-> m.seq, text |-> <<>>]
\* ImgDetections.detections: the list of detection records of the message
DetectionsOf(m) == [i \in 1..m.ndet |-> [msg |-> m.seq, idx |-> i]]
\* cv2.putText draws on the image in place
PutText(f, txt) == [f EXCEPT !.text = Append(@, txt)]

\* 'NN fps: {:.2f}'.format(c / e): hundredths, ties to even
FormatFps(c, e) ==
  LET q == (100 * c) \div e
      r == (100 * c) % e
  IN  IF 2 * r < e THEN q
      ELSE IF 2 * r > e THEN q + 1
      ELSE IF q % 2 = 0 THEN q ELSE q + 1

Ev(op, name, frame, dets, val) ==
  [op |-> op, name |-> name, frame |-> frame, dets |-> dets, val |-> val]

Raises(in, op, name) == in.fail = [op |-> op, name |-> name]
Raise(s, what) == [s EXCEPT !.err = what]
Call(s, e) == [s EXCEPT !.log = Append(@, e)]

(* ------------------------------ the loop body -------------------------- *)
\* the five reads at the head of the iteration
ReadQueues(s, in) ==
  LET k == IF in.fail.op = "tryGet"
           THEN CHOOSE i \in 1..5 : ReadOrder[i] = in.fail.name
           ELSE 6
      done == IF k = 6 THEN 5 ELSE k - 1
      evs == [i \in 1..done |->
               Ev("tryGet", ReadOrder[i], NoFrame, <<>>, in.msgs[ReadOrder[i]].seq)]
  IN  [s EXCEPT !.log = @ \o evs,
                !.err = IF k = 6 THEN "" ELSE "tryGet",
                !.LeftFrames = in.msgs["Left"],
                !.RightFrames = in.msgs["Right"],
                !.RGBFrames = in.msgs["RGB"],
                !.inDet = in.msgs["nn"],
                !.inNN = in.msgs["nnNet"]]

\* a plausible slip: the mono frame is annotated like the color frame
ShowLeftAnnotated(s, in) ==
  IF s.LeftFrames # NoMsg
  THEN IF Raises(in, "displayFrame", "Left")
       THEN Raise(s, "displayFrame")
       ELSE Call(s, Ev("displayFrame", "Left", GetCvFrame(s.LeftFrames), s.detections, 0))
  ELSE s

ShowLeft(s, in) ==
  IF s.LeftFrames # NoMsg
  THEN IF Raises(in, "displayFrame", "Left")
       THEN Raise(s, "displayFrame")
       ELSE Call(s, Ev("displayFrame", "Left", GetCvFrame(s.LeftFrames), <<>>, 0))
  ELSE s

ShowRight(s, in) ==
  IF s.RightFrames # NoMsg
  THEN IF Raises(in, "displayFrame", "Right")
       THEN Raise(s, "displayFrame")
       ELSE Call(s, Ev("displayFrame", "Right", GetCvFrame(s.RightFrames), <<>>, 0))
  ELSE s

\* a plausible slip: the time since the previous reading of the clock
ElapsedSincePrevious(t) == t - now

\* time.monotonic() - startTime
Elapsed(t) == t - startTime

AnnotateColor(s, in) ==
  IF s.RGBFrames # NoMsg
  THEN LET f == GetCvFrame(s.RGBFrames)
           s1 == Call([s EXCEPT !.clrFrame = f], Ev("set", "clrFrame", f, <<>>, 0))
       IN  IF Elapsed(in.t) = 0
           THEN Raise(s1, "ZeroDivisionError")
           ELSE IF Raises(in, "putText", "")
           THEN Raise(s1, "putText")
           ELSE LET txt == FormatFps(s1.counter, Elapsed(in.t))
                    g == PutText(f, txt)
                IN  Call([s1 EXCEPT !.clrFrame = g], Ev("putText", "RGB", g, <<>>, txt))
  ELSE s

\* a plausible slip: the counter counts detection records, not messages
UpdateDetectionsPerRecord(s, in) ==
  IF s.inDet # NoMsg
  THEN Call([s EXCEPT !.detections = DetectionsOf(s.inDet),
                      !.counter = @ + Len(DetectionsOf(s.inDet))],
            Ev("set", "detections", NoFrame, DetectionsOf(s.inDet), s.counter + 1))
  ELSE s

\* a plausible slip: no message resets the detection list
UpdateDetectionsOrReset(s, in) ==
  IF s.inDet # NoMsg
  THEN Call([s EXCEPT !.detections = DetectionsOf(s.inDet), !.counter = @ + 1],
            Ev("set", "detections", NoFrame, DetectionsOf(s.inDet), s.counter + 1))
  ELSE [s EXCEPT !.detections = <<>>]

UpdateDetections(s, in) ==
  IF s.inDet # NoMsg
  THEN Call([s EXCEPT !.detections = DetectionsOf(s.inDet), !.counter = @ + 1],
            Ev("set", "detections", NoFrame, DetectionsOf(s.inDet), s.counter + 1))
  ELSE s

\* a plausible slip: the flag is never cleared
PrintLayersAlways(s, in) ==
  IF s.printOutputLayersOnce /\ s.inNN # NoMsg
  THEN IF Raises(in, "print_neural_network_layer_names", "")
       THEN Raise(s, "print_neural_network_layer_names")
       ELSE Call(s, Ev("print_neural_network_layer_names", "nnNet", NoFrame, <<>>, s.inNN.seq))
  ELSE s

PrintLayersOnce(s, in) ==
  IF s.printOutputLayersOnce /\ s.inNN # NoMsg
  THEN IF Raises(in, "print_neural_network_layer_names", "")
       THEN Raise(s, "print_neural_network_layer_names")
       ELSE Call(Call([s EXCEPT !.printOutputLayersOnce = FALSE],
                      Ev("print_neural_network_layer_names", "nnNet", NoFrame, <<>>, s.inNN.seq)),
                 Ev("set", "printOutputLayersOnce", NoFrame, <<>>, 0))
  ELSE s

\* a plausible slip: the color frame is shown only in the iteration that
\* retrieved it
ShowColorFresh(s, in) ==
  IF s.RGBFrames # NoMsg
  THEN IF Raises(in, "displayFrame", "RGB Detection")
       THEN Raise(s, "displayFrame")
       ELSE Call(s, Ev("displayFrame", "RGB Detection", s.clrFrame, s.detections, 0))
  ELSE s

\* a faulty variant: the color window is rendered whether or not a frame is
\* held
ShowColorUnguarded(s, in) ==
  IF Raises(in, "displayFrame", "RGB Detection")
  THEN Raise(s, "displayFrame")
  ELSE Call(s, Ev("displayFrame", "RGB Detection", s.clrFrame, s.detections, 0))

ShowColor(s, in) ==
  IF s.clrFrame # NoFrame
  THEN IF Raises(in, "displayFrame", "RGB Detection")
       THEN Raise(s, "displayFrame")
       ELSE Call(s, Ev("displayFrame", "RGB Detection", s.clrFrame, s.detections, 0))
  ELSE s

\* the next statement runs unless an error is propagating; S holds the one
\* state reached so far
Then(S, F(_, _), in) == {IF x.err # "" THEN x ELSE F(x, in) : x \in S}
\* the state a chain of statements ends in
Result(S) == CHOOSE x \in S : TRUE

\* a plausible slip: the color frame is shown before the detections of this
\* iteration are taken
IterationShowsEarly(s, in) ==
  LET s1 == {ReadQueues(s, in)}
      s2 == Then(s1, ShowLeft, in)
      s3 == Then(s2, ShowRight, in)
      s4 == Then(s3, AnnotateColor, in)
      s5 == Then(s4, ShowColor, in)
      s6 == Then(s5, UpdateDetections, in)
  IN  Result(Then(s6, PrintLayersOnce, in))

\* a faulty variant: the detections and the counter are updated before the
\* FPS text is computed
IterationCountsFirst(s, in) ==
  LET s1 == {ReadQueues(s, in)}
      s2 == Then(s1, ShowLeft, in)
      s3 == Then(s2, ShowRight, in)
      s4 == Then(s3, UpdateDetections, in)
      s5 == Then(s4, AnnotateColor, in)
      s6 == Then(s5, PrintLayersOnce, in)
  IN  Result(Then(s6, ShowColor, in))

\* one pass through the body of `while True`, up to the key poll
Iteration(s, in) ==
  LET s1 == {ReadQueues(s, in)}
      s2 == Then(s1, ShowLeft, in)
      s3 == Then(s2, ShowRight, in)
      s4 == Then(s3, AnnotateColor, in)
      s5 == Then(s4, UpdateDetections, in)
      s6 == Then(s5, PrintLayersOnce, in)
  IN  Result(Then(s6, ShowColor, in))

(* ------------------------------ actions -------------------------------- *)
Init ==
  /\ pc = "build"
  /\ pipeline = NoPipeline
  /\ built = 0
  /\ uploaded = NoPipeline
  /\ opened = <<>>
  /\ session = "none"
  /\ error = ""
  /\ QUEUE_BLOCKING \in BOOLEAN
  /\ PRINT_NEURAL_NETWORK_METADATA \in BOOLEAN
  /\ queue = [n \in StreamNames |-> 0]
  /\ lastKey = NoKey
  /\ now = 0
  /\ clrFrame = NoFrame
  /\ detections = <<>>
  /\ startTime = 0
  /\ counter = 0
  /\ printOutputLayersOnce = FALSE
  /\ log = <<>>
  /\ retrievedDet = 0
  /\ lastRGB = NoMsg
  /\ lastDet = NoMsg
  /\ retrievedNN = 0
  /\ dumps = 0

\* a faulty variant: setup_pipeline returns before its last link
BuildDoneEarly(n) == n = Len(BuilderProgram) - 1
\* setup_pipeline has run all its statements and returns
BuildDone(n) == n = Len(BuilderProgram)

\* the next statement of setup_pipeline
Build ==
  /\ pc = "build"
  /\ ~BuildDone(built)
  /\ built < Len(BuilderProgram)
  /\ pipeline' = Apply(pipeline, BuilderProgram[built + 1])
  /\ built' = built + 1
  /\ UNCHANGED <<pc, devVars, session, error, cfgVars, queue, lastKey, now, hostVars, log, histVars>>

\* the next statement of setup_pipeline raises (a node type, a property
\* value or a link the SDK rejects): the script ends before any upload
BuilderOps == {"Pipeline", "create", "set", "link"}
BuildRaises ==
  /\ pc = "build"
  /\ ~BuildDone(built)
  /\ built < Len(BuilderProgram)
  /\ pc' = "aborted"
  /\ error' = BuilderProgram[built + 1].op
  /\ UNCHANGED <<buildVars, devVars, session, cfgVars, queue, lastKey, now, hostVars, log, histVars>>

\* `return pipeline` and the assignment of line 198
Return ==
  /\ pc = "build"
  /\ BuildDone(built)
  /\ pc' = "start"
  /\ UNCHANGED <<buildVars, devVars, session, error, cfgVars, queue, lastKey, now, hostVars, log, histVars>>

\* a plausible slip: the device is opened without `with` and never closed
SessionLeaked == "held"
\* leaving the `with` block closes the device and its queues; the locals of
\* upload_pipeline are gone
SessionReleased == "released"
Unwind(err) ==
  /\ pc' = "aborted"
  /\ session' = SessionReleased
  /\ error' = err
  /\ queue' = [n \in StreamNames |-> 0]
  /\ lastKey' = NoKey
  /\ now' = 0
  /\ clrFrame' = NoFrame
  /\ detections' = <<>>
  /\ startTime' = 0
  /\ counter' = 0
  /\ printOutputLayersOnce' = FALSE
  /\ log' = <<>>
  /\ retrievedDet' = 0
  /\ lastRGB' = NoMsg
  /\ lastDet' = NoMsg
  /\ retrievedNN' = 0
  /\ dumps' = 0
  /\ uploaded' = pipeline
  /\ opened' = <<>>
  /\ UNCHANGED <<cfgVars, buildVars>>

\* the names of the five getOutputQueue calls, in order
OpenOrder == <<"Left", "Right", "RGB", "nn", "nnNet">>
\* getOutputQueue raises for a name that is no stream of the pipeline
QueuesExist(p) == \A i \in 1..Len(OpenOrder) : OpenOrder[i] \in Streams(p)

\* dai.Device(pipeline), the device queries that are printed, the five
\* getOutputQueue calls and the initial values
OpenSession ==
  /\ pc = "start"
  /\ \E fail \in OpenFailSites, t \in now..MaxTime :
       IF fail.op = "Device"
       THEN \* the constructor raised: no session was entered
            /\ pc' = "aborted"
            /\ error' = "Device"
            /\ UNCHANGED <<buildVars, devVars, session, cfgVars, queue, lastKey, now,
                           hostVars, log, histVars>>
       ELSE IF fail.op # "none"
       THEN \* a device query or a queue open raised inside the block
            Unwind(fail.op)
       ELSE IF ~QueuesExist(pipeline)
       THEN Unwind("getOutputQueue")
       ELSE /\ pc' = "loop"
            /\ session' = "held"
            /\ uploaded' = pipeline
            /\ opened' = OpenOrder
            /\ now' = t
            /\ clrFrame' = NoFrame
            /\ detections' = <<>>
            /\ startTime' = t
            /\ counter' = 0
            /\ printOutputLayersOnce' = PRINT_NEURAL_NETWORK_METADATA
            /\ UNCHANGED <<buildVars, error, cfgVars, queue, lastKey, log, histVars>>

\* the device pushes a message to a host queue: a full queue makes a
\* blocking queue's producer wait and a non-blocking queue drop its oldest.
\* The host sees a message only when it reads it, so the queue is kept as
\* the number of messages waiting and the content of a message is drawn at
\* the read.  The host touches the queues only at the head of an iteration,
\* so a push during the rest of the iteration is the same as one right
\* after it.
Push(q) == IF q < QueueSize THEN q + 1 ELSE q
Produce ==
  /\ session = "held"
  /\ pc = "loop"
  /\ \E n \in StreamNames :
       /\ n \in Streams(uploaded)
       /\ \E i \in 1..Len(opened) : opened[i] = n
       /\ n = "nn" => retrievedDet + queue[n] < MaxDetMsgs
       /\ n = "nnNet" => retrievedNN + queue[n] < MaxDetMsgs
       /\ queue[n] = QueueSize => ~QUEUE_BLOCKING
       /\ queue' = [queue EXCEPT ![n] = Push(@)]
  /\ UNCHANGED <<pc, buildVars, devVars, session, error, cfgVars, lastKey, now,
                 hostVars, log, histVars>>

\* what the read of stream n can return in this iteration
Avail(n) == {TryGet(queue[n], m) : m \in Msgs(n)}
\* the messages the five reads of an iteration can return
Reads ==
  {[n \in StreamNames |->
      CASE n = "Left" -> l [] n = "Right" -> r [] n = "RGB" -> c
        [] n = "nn" -> d [] n = "nnNet" -> k] :
     l \in Avail("Left"), r \in Avail("Right"), c \in Avail("RGB"),
     d \in Avail("nn"), k \in Avail("nnNet")}
\* the locals at the head of an iteration
AtLoopHead ==
  [clrFrame |-> clrFrame, detections |-> detections, counter |-> counter,
   printOutputLayersOnce |-> printOutputLayersOnce,
   LeftFrames |-> NoMsg, RightFrames |-> NoMsg, RGBFrames |-> NoMsg,
   inDet |-> NoMsg, inNN |-> NoMsg,
   log |-> <<>>, err |-> ""]
HasCall(l, op) == \E i \in 1..Len(l) : l[i].op = op

\* the iteration ran to its key poll
Complete(s, in) ==
  /\ clrFrame' = s.clrFrame
  /\ detections' = s.detections
  /\ counter' = s.counter
  /\ printOutputLayersOnce' = s.printOutputLayersOnce
  /\ log' = s.log
  /\ now' = in.t
  /\ queue' = [n \in StreamNames |-> AfterTryGet(queue[n])]
  /\ pc' = "poll"
  /\ retrievedDet' = retrievedDet + (IF in.msgs["nn"] # NoMsg THEN 1 ELSE 0)
  /\ lastRGB' = IF in.msgs["RGB"] # NoMsg THEN in.msgs["RGB"] ELSE lastRGB
  /\ lastDet' = IF in.msgs["nn"] # NoMsg THEN in.msgs["nn"] ELSE lastDet
  /\ retrievedNN' = retrievedNN + (IF in.msgs["nnNet"] # NoMsg THEN 1 ELSE 0)
  /\ dumps' = dumps +
       (IF HasCall(s.log, "print_neural_network_layer_names") THEN 1 ELSE 0)
  /\ UNCHANGED <<buildVars, devVars, session, error, cfgVars, lastKey, startTime>>

\* the clock readings an iteration can see: time.monotonic() is read only
\* when a color frame was retrieved
Readings(msgs) == IF msgs["RGB"] # NoMsg THEN now..MaxTime ELSE {now}

\* the body of one iteration, in which no collaborator raises
Tick ==
  /\ pc = "loop"
  /\ \A n \in StreamNames : TryGetReturns(queue[n])
  /\ \E msgs \in Reads :
       \E t \in Readings(msgs) :
         \E in \in {[msgs |-> msgs, t |-> t, fail |-> NoFail]} :
           \E s \in {Iteration(AtLoopHead, in)} :
             IF s.err # "" THEN Unwind(s.err) ELSE Complete(s, in)

\* the body of one iteration, in which a collaborator call that the
\* iteration reaches raises (with a clock that has moved on, so that the
\* division is not what raises)
Reaches(op) ==
  \E msgs \in Reads, fail \in FailSites :
    /\ fail.op = op
    /\ Iteration(AtLoopHead, [msgs |-> msgs, t |-> now + 1, fail |-> fail]).err = op
TickRaises ==
  /\ pc = "loop"
  /\ \A n \in StreamNames : TryGetReturns(queue[n])
  /\ \E op \in {f.op : f \in FailSites \ {NoFail}} :
       IF Reaches(op) THEN Unwind(op) ELSE FALSE

\* `if cv2.waitKey(1) == ord('q'): break`
QuitRequested(key) == key = QuitKey
PollKey ==
  /\ pc = "poll"
  /\ \E key \in Keys :
       /\ lastKey' = key
       /\ IF QuitRequested(key)
          THEN /\ pc' = "exited"
               /\ session' = SessionReleased
               /\ queue' = [n \in StreamNames |-> 0]
               /\ opened' = <<>>
               /\ log' = Append(log, Ev("waitKey", "", NoFrame, <<>>, key))
          ELSE /\ pc' = "loop"
               /\ log' = <<>>
               /\ UNCHANGED <<session, queue, opened>>
  /\ UNCHANGED <<buildVars, uploaded, error, cfgVars, now, hostVars, histVars>>

\* cv2.waitKey raises
PollKeyRaises ==
  /\ pc = "poll"
  /\ Unwind("waitKey")

Next ==
  \/ Build \/ BuildRaises \/ Return
  \/ OpenSession \/ Produce \/ Tick \/ TickRaises \/ PollKey \/ PollKeyRaises

Spec == Init /\ [][Next]_vars

(* ------------------------------ properties ----------------------------- *)
\* the body of the current iteration has run: log holds its calls
BodyDone == pc \in {"poll", "exited"}
InLoop == pc \in {"loop", "poll", "exited"}
At(l, op, name) == {i \in 1..Len(l) : l[i].op = op /\ l[i].name = name}
\* what the tryGet on stream `name` returned in this iteration (0: None)
Got(name) == log[CHOOSE i \in At(log, "tryGet", name) : TRUE].val
Renders(name) == At(log, "displayFrame", name)

\* C1: an iteration that retrieves a detection message replaces `detections`
\* by the message's list and adds exactly one to `counter`, whatever the
\* number of records; `counter` is the number of detection messages
\* retrieved so far
C1_Step ==
  (pc = "loop" /\ pc' = "poll" /\ Got("nn")' # 0)
    => /\ detections' = DetectionsOf(lastDet')
       /\ counter' = counter + 1
C1_CounterCountsMessages ==
  /\ [](InLoop => counter = retrievedDet)
  /\ [][C1_Step]_vars
C1_Witness ==
  /\ pc = "poll"
  /\ Got("nn") # 0
  /\ counter = 2
  /\ Len(detections) = MaxDets

\* C2: every 'RGB Detection' render passes the last color frame retrieved
\* and the last detection set retrieved, this iteration's included
C2_RenderPairsLatest ==
  BodyDone =>
    \A i \in Renders("RGB Detection") :
      /\ log[i].frame.id = lastRGB.seq
      /\ log[i].dets = DetectionsOf(lastDet)
C2_Witness ==
  /\ pc = "poll"
  /\ Got("RGB") = 0
  /\ Got("nn") # 0
  /\ \E i \in Renders("RGB Detection") :
       log[i].frame.id = MaxFrames /\ Len(log[i].dets) = 1

\* C3: the layer-name dump runs at most once, in the iteration of the first
\* 'nnNet' message when the flag is configured and never otherwise; the latch
\* is pending exactly until then
C3_DumpOnce ==
  InLoop =>
    /\ dumps <= 1
    /\ ~PRINT_NEURAL_NETWORK_METADATA => dumps = 0
    /\ printOutputLayersOnce <=> (PRINT_NEURAL_NETWORK_METADATA /\ retrievedNN = 0)
    /\ BodyDone =>
         (HasCall(log, "print_neural_network_layer_names")
            <=> /\ PRINT_NEURAL_NETWORK_METADATA
                /\ Got("nnNet") # 0
                /\ retrievedNN = 1)
C3_Witness ==
  /\ pc = "poll"
  /\ PRINT_NEURAL_NETWORK_METADATA
  /\ Got("nnNet") # 0
  /\ retrievedNN = 2
  /\ dumps = 1
  /\ ~HasCall(log, "print_neural_network_layer_names")

\* C4: a queue whose read returns no message leaves the state tied to it
\* unchanged in that iteration, and nothing but the body of an iteration
\* changes that state
C4_Step ==
  /\ (pc = "loop" /\ pc' = "poll") =>
       /\ Got("RGB")' = 0 => clrFrame' = clrFrame
       /\ Got("nn")' = 0 => (detections' = detections /\ counter' = counter)
       /\ Got("nnNet")' = 0 => printOutputLayersOnce' = printOutputLayersOnce
  /\ (pc = "poll" /\ pc' # "aborted") => UNCHANGED hostVars
  /\ (pc = "loop" /\ pc' = "loop") => UNCHANGED hostVars
C4_AbsentLeavesState == [][C4_Step]_vars
C4_Witness ==
  /\ pc = "poll"
  /\ \A n \in StreamNames : Got(n) = 0
  /\ clrFrame # NoFrame
  /\ detections # <<>>
  /\ counter = MaxDetMsgs
  /\ printOutputLayersOnce

\* C5 as stated: an iteration that retrieves no left, right or color frame
\* makes no render call
C5_NoFrameNoRender ==
  (BodyDone /\ Got("Left") = 0 /\ Got("Right") = 0 /\ Got("RGB") = 0)
    => ~HasCall(log, "displayFrame")
\* C5 amended: an iteration that retrieves no frame makes no 'Left' and no
\* 'Right' render, and makes one 'RGB Detection' render of the retained
\* frame with the current detections exactly when a color frame is held
C5_NoFrameRendersRetained ==
  (BodyDone /\ Got("Left") = 0 /\ Got("Right") = 0 /\ Got("RGB") = 0)
    => /\ Renders("Left") = {}
       /\ Renders("Right") = {}
       /\ Cardinality(Renders("RGB Detection")) = (IF clrFrame # NoFrame THEN 1 ELSE 0)
       /\ \A i \in Renders("RGB Detection") :
            log[i].frame = clrFrame /\ log[i].dets = detections
\* tick 2 of the scenario: C1 was shown with count 0, D1 (2 boxes) arrives
C5_Witness ==
  /\ pc = "poll"
  /\ Got("Left") = 0 /\ Got("Right") = 0 /\ Got("RGB") = 0
  /\ Got("nn") # 0
  /\ counter = 1
  /\ Len(detections) = 2
  /\ clrFrame = [id |-> 1, text |-> <<0>>]
  /\ Renders("RGB Detection") # {}

\* C6: an iteration that retrieves a color frame sets clrFrame to it, puts
\* exactly one FPS text on it before it is rendered, computed from the
\* counter and the time since startTime, which stays as set before the
\* loop; an iteration without a color frame puts no FPS text
C6_Overlay ==
  BodyDone =>
    IF Got("RGB") # 0
    THEN /\ clrFrame.id = Got("RGB")
         /\ clrFrame.text =
              <<FormatFps(retrievedDet - (IF Got("nn") # 0 THEN 1 ELSE 0),
                          now - startTime)>>
         /\ \E i \in 1..Len(log) :
              /\ At(log, "putText", "RGB") = {i}
              /\ log[i].val = clrFrame.text[1]
              /\ \E j \in Renders("RGB Detection") : j > i /\ log[j].frame = clrFrame
    ELSE At(log, "putText", "RGB") = {}
C7_Mono(name) ==
  IF Got(name) # 0
  THEN /\ Cardinality(Renders(name)) = 1
       /\ \A i \in Renders(name) :
            /\ log[i].frame = [id |-> Got(name), text |-> <<>>]
            /\ log[i].dets = <<>>
  ELSE Renders(name) = {}
C7_MonoRenders == BodyDone => (C7_Mono("Left") /\ C7_Mono("Right"))
C7_Witness ==
  /\ pc = "poll"
  /\ Got("Left") # 0
  /\ Got("Right") = 0
  /\ Renders("Left") # {}
  /\ detections # <<>>
  /\ counter = 2
  /\ clrFrame # NoFrame

\* C8: the loop is left only by the iteration whose key poll returns the
\* quit key, or by a fatal error a collaborator raises; a key poll that
\* returns the quit key ends the loop
CollaboratorErrors ==
  BuilderOps \cup
  {"Device", "getDeviceInfo", "getOutputQueue", "tryGet", "displayFrame", "putText",
   "print_neural_network_layer_names", "waitKey"}
C8_OnlyQuitKeyEndsLoop ==
  /\ pc = "exited" => lastKey = QuitKey
  /\ pc = "loop" => lastKey # QuitKey
  /\ pc = "aborted" => error \in CollaboratorErrors

\* C9: every iteration starts with exactly one tryGet on each of the five
\* queues, before anything else; the reads never wait, so with any subset of
\* the queues empty, in either blocking mode, the iteration reaches its key
\* poll
C9_Reads ==
  BodyDone =>
    /\ Len(log) >= 5
    /\ \A i \in 1..5 : log[i].op = "tryGet" /\ log[i].name = ReadOrder[i]
    /\ \A i \in 6..Len(log) : log[i].op # "tryGet"
C10_SessionReleasedOnExit ==
  /\ pc \in {"loop", "poll"} => session = "held"
  /\ pc = "exited" => session = "released"
  /\ pc = "aborted" =>
       session = (IF error \in BuilderOps \cup {"Device"} THEN "none" ELSE "released")
C10_Witness ==
  /\ pc = "aborted"
  /\ error = "print_neural_network_layer_names"
  /\ session = "released"

\* C11: the description is complete when setup_pipeline returns and is the
\* one the device is given; every builder statement runs before the upload
\* and none at or after it; building opens no session, opens no queue and
\* makes no read or display call
RECURSIVE Built(_)
Built(n) == IF n = 0 THEN NoPipeline ELSE Apply(Built(n - 1), BuilderProgram[n])
C11_State ==
  /\ pipeline = Built(built)
  /\ pc \in {"start", "loop", "poll", "exited"} => built = Len(BuilderProgram)
  /\ uploaded # NoPipeline => (uploaded = pipeline /\ built = Len(BuilderProgram))
  /\ session # "none" => uploaded = Built(Len(BuilderProgram))
  /\ pc = "build" =>
       /\ session = "none" /\ uploaded = NoPipeline /\ opened = <<>>
       /\ log = <<>> /\ \A n \in StreamNames : queue[n] = 0
C11_Step ==
  /\ pc # "build" => UNCHANGED buildVars
  /\ pc = "build" => UNCHANGED <<devVars, session, queue, log, hostVars>>
  /\ uploaded # NoPipeline => uploaded' = uploaded
C11_BuiltBeforeUpload == []C11_State /\ [][C11_Step]_vars
C11_Witness ==
  /\ pc = "poll"
  /\ session = "held"
  /\ built = Len(BuilderProgram)
  /\ uploaded = pipeline
  /\ Cardinality(pipeline.links) = 6
  /\ Cardinality(pipeline.nodes) = 9
  /\ HasCall(log, "displayFrame")

Before(I, J) == \A i \in I, j \in J : i < j
C13_WithinTickOrder ==
  BodyDone =>
    LET text == At(log, "putText", "RGB")
        upd == At(log, "set", "detections")
        dump == At(log, "print_neural_network_layer_names", "nnNet")
        rend == Renders("RGB Detection")
        poll == At(log, "waitKey", "")
    IN  /\ Before(text, upd) /\ Before(text, dump) /\ Before(text, rend)
        /\ Before(upd, dump) /\ Before(upd, rend)
        /\ Before(dump, rend)
        /\ Before(1..Len(log) \ poll, poll)
        /\ pc = "exited" => poll = {Len(log)}
        /\ (Got("RGB") # 0 /\ Got("nn") # 0) =>
             /\ Cardinality(text) = 1 /\ Cardinality(upd) = 1 /\ Cardinality(rend) = 1
             /\ \A i \in text : log[i].val = FormatFps(counter - 1, now - startTime)
             /\ \A i \in upd : log[i].val = counter /\ log[i].dets = DetectionsOf(lastDet)
             /\ \A i \in rend :
                  /\ log[i].dets = DetectionsOf(lastDet)
                  /\ log[i].frame.id = Got("RGB")
                  /\ log[i].frame.text = <<FormatFps(counter - 1, now - startTime)>>
C13_Witness ==
  /\ pc = "exited"
  /\ Got("RGB") # 0 /\ Got("nn") # 0 /\ Got("nnNet") # 0
  /\ HasCall(log, "print_neural_network_layer_names")
  /\ counter = 1
  /\ now - startTime = 1
  /\ clrFrame.text = <<0>>
  /\ Len(detections) = MaxDets
  /\ log[Len(log)].op = "waitKey"

\* C14: the clock only has to be non-decreasing, and the time since
\* startTime is positive in every iteration that retrieves a color frame,
\* so no iteration ends in a division error
C14_FpsNeverDividesByZero ==
  /\ error # "ZeroDivisionError"
  /\ (BodyDone /\ Got("RGB") # 0) => now - startTime > 0

\* C15: the five stream-output nodes carry the names 'Left', 'Right',
\* 'RGB', 'nn' and 'nnNet', one each; each has exactly one incoming link,
\* from the producer its name stands for; the host opens one queue for each
\* of these names and for no other
Producer(n) ==
  CASE n = "Left" -> [type |-> "MonoCamera", socket |-> "LEFT", port |-> "out"]
    [] n = "Right" -> [type |-> "MonoCamera", socket |-> "RIGHT", port |-> "out"]
    [] n = "RGB" -> [type |-> "ColorCamera", socket |-> "", port |-> "preview"]
    [] n = "nn" -> [type |-> "MobileNetDetectionNetwork", socket |-> "", port |-> "out"]
    [] n = "nnNet" -> [type |-> "MobileNetDetectionNetwork", socket |-> "", port |-> "outNetwork"]
LinkedFrom(p, l, n) ==
  /\ [var |-> l.src, type |-> Producer(n).type] \in p.nodes
  /\ l.port = Producer(n).port
  /\ Producer(n).socket # "" =>
       [node |-> l.src, prop |-> "setBoardSocket", val |-> Producer(n).socket] \in p.props
C15_Pipeline(p) ==
  /\ Cardinality(XLinkOuts(p)) = 5
  /\ UNION {NamesOf(p, x) : x \in XLinkOuts(p)} = {"Left", "Right", "RGB", "nn", "nnNet"}
  /\ \A x \in XLinkOuts(p) :
       /\ Cardinality(NamesOf(p, x)) = 1
       /\ Cardinality(Incoming(p, x)) = 1
       /\ \A n \in NamesOf(p, x), l \in Incoming(p, x) : LinkedFrom(p, l, n)
C15_StreamNamesMatch ==
  /\ pc \in {"start", "loop", "poll", "exited"} => C15_Pipeline(pipeline)
  /\ pc \in {"loop", "poll"} =>
       /\ C15_Pipeline(uploaded)
       /\ Len(opened) = 5
       /\ {opened[i] : i \in 1..Len(opened)} = {"Left", "Right", "RGB", "nn", "nnNet"}
       /\ {opened[i] : i \in 1..Len(opened)} = Streams(uploaded)
       /\ \A n \in StreamNames : queue[n] > 0 => n \in Streams(uploaded)
C15_Witness ==
  /\ pc = "poll"
  /\ opened = OpenOrder
  /\ \A n \in Streams(uploaded) : Got(n) # 0
  /\ Cardinality(Streams(uploaded)) = 5
====
